---- MODULE Spec2Model ----
(***************************************************************************)
(* Model of the NEO entity classes (models.py), the loaders (extract.py)   *)
(* and the writers (write.py).                                             *)
(*                                                                         *)
(* Python values are tagged records:                                       *)
(*   None                     [t |-> "None"]                               *)
(*   str                      [t |-> "str", v |-> <<characters>>]          *)
(*   float                    [t |-> "float", v |-> k]  the double nearest *)
(*                            to k/100 (k an integer), or [t |-> "nan"]    *)
(*   bool                     [t |-> "bool", v |-> TRUE/FALSE]             *)
(*   datetime                 [t |-> "datetime", y, mo, d, h, mi]          *)
(*   list                     [t |-> "list", v |-> <<...>>]                *)
(*   dict                     [t |-> "dict", v |-> function from keys]     *)
(*   a NearEarthObject        [t |-> "neo", id |-> index into neos]        *)
(* A text is a sequence of one-character strings, so that parsing and      *)
(* formatting are computed character by character.  A dict is a function   *)
(* from key strings to values.  A call that raises yields                  *)
(* [ok |-> FALSE, exc |-> <exception type>], one that returns yields       *)
(* [ok |-> TRUE, val |-> <value>].                                         *)
(***************************************************************************)
EXTENDS Integers, Sequences, FiniteSets, TLC

\* neos, cas  the NearEarthObject and CloseApproach instances constructed so
\*            far, in construction order; an instance is named by its index
\* outfile    the file the writers are given
\* lastCall   the last call made: its operation, argument and outcome
VARIABLES neos, cas, outfile, lastCall
vars == <<neos, cas, outfile, lastCall>>

\* ------------------------------------------------------------ bounds
MaxNeos == 1
MaxCas == 1
MaxResults == 2
MaxRows == 2

\* ------------------------------------------------------------ values
None == [t |-> "None"]
NaN == [t |-> "nan"]
Str(cs) == [t |-> "str", v |-> cs]
Flt(k) == [t |-> "float", v |-> k]
Bool(b) == [t |-> "bool", v |-> b]
NeoRef(n) == [t |-> "neo", id |-> n]
List(s) == [t |-> "list", v |-> s]
Dict(d) == [t |-> "dict", v |-> d]
Raise(e) == [ok |-> FALSE, exc |-> e]
Return(v) == [ok |-> TRUE, val |-> v]

\* Python truth value of a value (`if x:`).
Truthy(x) ==
    CASE x.t = "None" -> FALSE
      [] x.t = "str" -> Len(x.v) > 0
      [] x.t = "float" -> x.v # 0
      [] x.t = "bool" -> x.v
      [] x.t = "list" -> Len(x.v) > 0
      [] x.t = "dict" -> DOMAIN x.v # {}
      [] OTHER -> TRUE

\* isinstance(x, float)
IsFloat(x) == x.t \in {"float", "nan"}

\* dict.get(key, default) and dict.get(key)
Get(info, key, default) == IF key \in DOMAIN info THEN info[key] ELSE default

\* The empty dict, and a dict with one more key (d[key] = value).
EmptyDict == [k \in {} |-> None]
Put(d, key, value) == (key :> value) @@ d

\* d[key]
Index(d, key) == IF key \in DOMAIN d THEN Return(d[key]) ELSE Raise("KeyError")

\* The rest of a computation that uses the value a call returned, or the
\* exception the call raised.
Then(r, F(_)) == IF r.ok THEN F(r.val) ELSE r

\* {**a, **b}: the keys of both, b's value where both have the key.
Merge(a, b) == b @@ a

\* ------------------------------------------------------------ texts
DigitVal == ("0" :> 0) @@ ("1" :> 1) @@ ("2" :> 2) @@ ("3" :> 3) @@ ("4" :> 4)
            @@ ("5" :> 5) @@ ("6" :> 6) @@ ("7" :> 7) @@ ("8" :> 8) @@ ("9" :> 9)
DigitChar == <<"0", "1", "2", "3", "4", "5", "6", "7", "8", "9">>
IsDigits(cs) == \A i \in 1..Len(cs) : cs[i] \in DOMAIN DigitVal

RECURSIVE DigitsVal(_)
DigitsVal(cs) ==
    IF Len(cs) = 0 THEN 0
    ELSE 10 * DigitsVal(SubSeq(cs, 1, Len(cs) - 1)) + DigitVal[cs[Len(cs)]]

RECURSIVE NatChars(_)
NatChars(n) ==
    IF n < 10 THEN <<DigitChar[n + 1]>>
    ELSE NatChars(n \div 10) \o <<DigitChar[(n % 10) + 1]>>

\* cs zero-padded on the left to at least w characters.
RECURSIVE Pad(_, _)
Pad(cs, w) == IF Len(cs) >= w THEN cs ELSE Pad(<<"0">> \o cs, w)

\* n in decimal, in at least w digits.
Digits(n, w) == Pad(NatChars(n), w)

\* str.strip() for blanks.
RECURSIVE Strip(_)
Strip(cs) ==
    IF Len(cs) > 0 /\ cs[1] = " " THEN Strip(Tail(cs))
    ELSE IF Len(cs) > 0 /\ cs[Len(cs)] = " " THEN Strip(SubSeq(cs, 1, Len(cs) - 1))
    ELSE cs

\* The position of the first "." of cs, or 0.
DotAt(cs) ==
    IF \E i \in 1..Len(cs) : cs[i] = "."
    THEN CHOOSE i \in 1..Len(cs) : cs[i] = "." /\ \A j \in 1..(i - 1) : cs[j] # "."
    ELSE 0

\* The value, in hundredths, of the two leading fraction digits.
Hundredths(frac) ==
    IF Len(frac) = 0 THEN 0
    ELSE IF Len(frac) = 1 THEN 10 * DigitVal[frac[1]]
    ELSE 10 * DigitVal[frac[1]] + DigitVal[frac[2]]

\* The value in hundredths of the digits `whole` before and `frac` after the
\* point, or -1 when they are no decimal number.
Decimal(whole, frac) ==
    IF IsDigits(whole) /\ IsDigits(frac) /\ Len(whole) + Len(frac) > 0
    THEN 100 * DigitsVal(whole) + Hundredths(frac)
    ELSE -1

SplitAt(cs, dot) ==
    IF dot = 0 THEN Decimal(cs, <<>>)
    ELSE Decimal(SubSeq(cs, 1, dot - 1), SubSeq(cs, dot + 1, Len(cs)))

\* An unsigned decimal text "ddd", "ddd.", ".dd" or "ddd.dd": its value in
\* hundredths, or -1.  The texts of the model carry at most two fraction digits.
Unsigned(cs) == SplitAt(cs, DotAt(cs))

FromMagnitude(mag) == IF mag < 0 THEN Raise("ValueError") ELSE Return(Flt(mag))

\* "nan" in any letter case ("NaN", "NAN", ...).
IsNanText(cs) ==
    /\ Len(cs) = 3
    /\ cs[1] \in {"n", "N"}
    /\ cs[2] \in {"a", "A"}
    /\ cs[3] \in {"n", "N"}

ParseUnsigned(cs) ==
    IF IsNanText(cs) THEN Return(NaN) ELSE FromMagnitude(Unsigned(cs))

Negated(r) == IF r.ok /\ r.val.t = "float" THEN Return(Flt(0 - r.val.v)) ELSE r

ParseSigned(s) ==
    IF Len(s) > 0 /\ s[1] = "-" THEN Negated(ParseUnsigned(Tail(s)))
    ELSE IF Len(s) > 0 /\ s[1] = "+" THEN ParseUnsigned(Tail(s))
    ELSE ParseUnsigned(s)

\* float(text): blanks stripped, an optional sign, then "nan" (in any letter
\* case; a signed nan is nan) or a decimal
\* number (exponents, "inf" and underscores are not among the model's texts).
ParseFloat(cs) == ParseSigned(Strip(cs))

\* float(x)
Float(x) ==
    CASE x.t \in {"float", "nan"} -> Return(x)
      [] x.t = "str" -> ParseFloat(x.v)
      [] x.t = "bool" -> Return(Flt(IF x.v THEN 100 ELSE 0))
      [] OTHER -> Raise("TypeError")

Sign(k) == IF k < 0 THEN <<"-">> ELSE <<>>
Abs(k) == IF k < 0 THEN 0 - k ELSE k

\* The fraction digits repr() shows for `frac` hundredths: "0", "5", "05", "84".
ReprFraction(frac) == IF frac % 10 = 0 THEN NatChars(frac \div 10) ELSE Digits(frac, 2)

\* str(x) / f"{x}" of a float
FloatStr(x) ==
    IF x.t = "nan" THEN <<"n", "a", "n">>
    ELSE Sign(x.v) \o NatChars(Abs(x.v) \div 100) \o <<".">> \o ReprFraction(Abs(x.v) % 100)

\* str(x) / f"{x}" for the scalar values of the model.
PyStr(x) ==
    CASE x.t = "None" -> <<"N", "o", "n", "e">>
      [] x.t = "str" -> x.v
      [] x.t = "bool" -> IF x.v THEN <<"T", "r", "u", "e">> ELSE <<"F", "a", "l", "s", "e">>
      [] OTHER -> FloatStr(x)

RECURSIVE Zeros(_)
Zeros(n) == IF n <= 0 THEN <<>> ELSE <<"0">> \o Zeros(n - 1)

\* k hundredths in fixed notation with `places` >= 2 decimals.
FixedText(k, places) ==
    Sign(k) \o NatChars(Abs(k) \div 100) \o <<".">> \o Digits(Abs(k) % 100, 2)
    \o Zeros(places - 2)

\* f"{x:.2f}" and f"{x:.3f}", by the type of x: a float in fixed notation with
\* `places` >= 2 decimals; a bool as the number 1 or 0; a str raises ValueError
\* (format code 'f' is unknown to str); a datetime takes the format for a
\* strftime pattern and returns it, ".2f"; None, a list, a dict and an object
\* without __format__ raise TypeError.
FormatFixed(x, places) ==
    CASE x.t = "nan" -> Return(<<"n", "a", "n">>)
      [] x.t = "float" -> Return(FixedText(x.v, places))
      [] x.t = "bool" -> Return(FixedText(IF x.v THEN 100 ELSE 0, places))
      [] x.t = "str" -> Raise("ValueError")
      [] x.t = "datetime" -> Return(<<".">> \o NatChars(places) \o <<"f">>)
      [] OTHER -> Raise("TypeError")

\* ------------------------------------------------------------ helpers.py
\* helpers.py is imported by models.py and is not among the source files: the
\* two helpers follow the date-time formats the specification describes,
\* "year-month-day hour:minute" with a month name on input, numeric on output.
MonthNames == <<<<"J", "a", "n">>, <<"F", "e", "b">>, <<"M", "a", "r">>,
                <<"A", "p", "r">>, <<"M", "a", "y">>, <<"J", "u", "n">>,
                <<"J", "u", "l">>, <<"A", "u", "g">>, <<"S", "e", "p">>,
                <<"O", "c", "t">>, <<"N", "o", "v">>, <<"D", "e", "c">>>>

IsLeap(y) == (y % 4 = 0 /\ y % 100 # 0) \/ y % 400 = 0

DaysInMonth(y, mo) ==
    IF mo = 2 THEN (IF IsLeap(y) THEN 29 ELSE 28)
    ELSE IF mo \in {4, 6, 9, 11} THEN 30 ELSE 31

\* The text has the form "YYYY-Mon-DD hh:mm".
TimeShaped(cs) ==
    /\ Len(cs) = 17
    /\ cs[5] = "-" /\ cs[9] = "-" /\ cs[12] = " " /\ cs[15] = ":"
    /\ IsDigits(SubSeq(cs, 1, 4)) /\ IsDigits(SubSeq(cs, 10, 11))
    /\ IsDigits(SubSeq(cs, 13, 14)) /\ IsDigits(SubSeq(cs, 16, 17))
    /\ \E m \in 1..12 : MonthNames[m] = SubSeq(cs, 6, 8)

\* The datetime of the five numbers, ValueError when they name no date-time.
MakeDatetime(y, mo, d, h, mi) ==
    IF y >= 1 /\ d >= 1 /\ d <= DaysInMonth(y, mo) /\ h <= 23 /\ mi <= 59
    THEN Return([t |-> "datetime", y |-> y, mo |-> mo, d |-> d, h |-> h, mi |-> mi])
    ELSE Raise("ValueError")

\* cd_to_datetime(text): "YYYY-Mon-DD hh:mm" to a datetime; ValueError when the
\* text does not have that form or names no calendar date, TypeError when the
\* argument is no text.
cd_to_datetime(x) ==
    IF x.t # "str" THEN Raise("TypeError")
    ELSE IF ~TimeShaped(x.v) THEN Raise("ValueError")
    ELSE MakeDatetime(DigitsVal(SubSeq(x.v, 1, 4)),
                      CHOOSE m \in 1..12 : MonthNames[m] = SubSeq(x.v, 6, 8),
                      DigitsVal(SubSeq(x.v, 10, 11)),
                      DigitsVal(SubSeq(x.v, 13, 14)),
                      DigitsVal(SubSeq(x.v, 16, 17)))

\* datetime_to_str(dt): "YYYY-MM-DD hh:mm", the seconds dropped; TypeError when
\* the argument is no datetime.
datetime_to_str(dt) ==
    IF dt.t # "datetime" THEN Raise("TypeError")
    ELSE Return(Str(Digits(dt.y, 4) \o <<"-">> \o Digits(dt.mo, 2) \o <<"-">>
                    \o Digits(dt.d, 2) \o <<" ">> \o Digits(dt.h, 2)
                    \o <<":">> \o Digits(dt.mi, 2)))

\* ------------------------------------------------------------ models.py
\* A call Class(*args, **info) of a class whose __init__ is (self, **info):
\* any positional argument is a TypeError before __init__ runs.

\* NearEarthObject.__init__(self, **info)
NearEarthObject_init(info) ==
    Then(Float(Get(info, "diameter", NaN)), LAMBDA diameter :
         Return([designation |-> Get(info, "designation", None),
                 name |-> Get(info, "name", None),
                 diameter |-> diameter,
                 hazardous |-> Get(info, "hazardous", None),
                 approaches |-> <<>>]))

NearEarthObject(args, info) ==
    IF Len(args) > 0 THEN Raise("TypeError") ELSE NearEarthObject_init(info)

\* fullname with the name tested against None instead of for truth.
fullname_NotNone(neo) ==
    IF neo.name # None
    THEN PyStr(neo.designation) \o <<" ", "(">> \o PyStr(neo.name) \o <<")">>
    ELSE PyStr(neo.designation)

\* NearEarthObject.fullname
fullname(neo) ==
    IF Truthy(neo.name)
    THEN PyStr(neo.designation) \o <<" ", "(">> \o PyStr(neo.name) \o <<")">>
    ELSE PyStr(neo.designation)

\* serialize() that returns every attribute, the approaches among them.
NeoSerialize_All(neo) ==
    [Designation |-> neo.designation,
     Name |-> neo.name,
     Diameter_km |-> neo.diameter,
     Potentially_hazardous |-> neo.hazardous,
     approaches |-> List(neo.approaches)]

\* NearEarthObject.serialize
NeoSerialize(neo) ==
    [Designation |-> neo.designation,
     Name |-> neo.name,
     Diameter_km |-> neo.diameter,
     Potentially_hazardous |-> neo.hazardous]

\* CloseApproach.__init__, the time: converted only when it is truthy, and
\* every exception of the conversion re-raised as ValueError.
AsValueError(r) == IF r.ok THEN r ELSE Raise("ValueError")

InitTime(given) ==
    IF Truthy(given) THEN AsValueError(cd_to_datetime(given)) ELSE Return(given)

\* CloseApproach.__init__, from the distance on.
InitRest(info, time, distance, velocity) ==
    IF ~IsFloat(distance) THEN Raise("ValueError")
    ELSE IF ~IsFloat(velocity) THEN Raise("ValueError")
    ELSE Return([_designation |-> Get(info, "designation", None),
                 time |-> time,
                 distance |-> distance,
                 velocity |-> velocity,
                 neo |-> Get(info, "neo", None)])

\* CloseApproach.__init__(self, **info)
CloseApproach_init(info) ==
    Then(InitTime(Get(info, "time", None)), LAMBDA time :
         InitRest(info, time, Get(info, "distance", NaN), Get(info, "velocity", NaN)))

CloseApproach(args, info) ==
    IF Len(args) > 0 THEN Raise("TypeError") ELSE CloseApproach_init(info)

\* CloseApproach.time_str: the name datetime_to_string is bound nowhere (the
\* import is datetime_to_str), so the formatting branch raises NameError.
time_str(ca) ==
    IF Truthy(ca.time) THEN Raise("NameError")
    ELSE Return(<<"U", "n", "k", "n", "o", "w", "n", " ", "t", "i", "m", "e">>)

\* self.neo.fullname: AttributeError when self.neo is None.
NeoFullname(ca) ==
    IF ca.neo.t = "neo" THEN Return(fullname(neos[ca.neo.id]))
    ELSE Raise("AttributeError")

\* CloseApproach.__str__
CaStr(ca) ==
    Then(time_str(ca), LAMBDA when :
    Then(NeoFullname(ca), LAMBDA full :
    Then(FormatFixed(ca.distance, 2), LAMBDA dist :
    Then(FormatFixed(ca.velocity, 2), LAMBDA vel :
         Return(Str(<<"A", "t", " ">> \o when \o <<",", " ", "'">> \o full
                 \o <<"'", " ", "a", "p", "p", "r", "o", "a", "c", "h", "e", "s", " ",
                      "E", "a", "r", "t", "h", " ", "a", "t", " ", "a", " ",
                      "d", "i", "s", "t", "a", "n", "c", "e", " ", "o", "f", " ">>
                 \o dist
                 \o <<" ", "a", "u", " ", "a", "n", "d", " ", "a", " ",
                      "v", "e", "l", "o", "c", "i", "t", "y", " ", "o", "f", " ">>
                 \o vel \o <<" ", "k", "m", "/", "s", ".">>))))))

\* CloseApproach.serialize
CaSerialize(ca) ==
    Then(datetime_to_str(ca.time), LAMBDA text :
         Return([Datetime_utc |-> text,
                 Distance_au |-> ca.distance,
                 Velocity_km_s |-> ca.velocity]))

\* ------------------------------------------------------------ write.py
\* The state of the output file: absent, holding what was there before any
\* writer ran, or holding what a writer wrote.
Absent == [t |-> "absent"]
OldFile == [t |-> "old"]
CsvFile(header, rows) == [t |-> "csv", header |-> header, rows |-> rows]
JsonFile(doc) == [t |-> "json", doc |-> doc]

\* write_to_csv: fieldnames
fieldnames == <<"datetime_utc", "distance_au", "velocity_km_s",
                "designation", "name", "diameter_km", "potentially_hazardous">>

\* result.neo.serialize(): AttributeError when result.neo is None.
NeoOfSerialize(ca) ==
    IF ca.neo.t = "neo" THEN Return(NeoSerialize(neos[ca.neo.id]))
    ELSE Raise("AttributeError")

\* content = {**result.serialize(), **result.neo.serialize()}
MergedContent(ca) ==
    Then(CaSerialize(ca), LAMBDA own :
    Then(NeoOfSerialize(ca), LAMBDA its : Return(Merge(own, its))))

\* content["name"] = content.get("name", "")
WithName(content) == Put(content, "name", Get(content, "name", Str(<<>>)))

\* content["potentially_hazardous"] = str(content["potentially_hazardous"])
CsvWithFlag(content) ==
    Then(Index(content, "potentially_hazardous"), LAMBDA flag :
         Return(Put(content, "potentially_hazardous", Str(PyStr(flag)))))

\* write_to_csv.format_content(result)
CsvFormatContent(ca) ==
    Then(MergedContent(ca), LAMBDA merged : CsvWithFlag(WithName(merged)))

\* csv.DictWriter.writerow(content): ValueError when content has a key that is
\* no field name; a missing field is written empty, None is written empty,
\* every other value as str(value).
CsvCell(x) == IF x.t = "None" THEN <<>> ELSE PyStr(x)

writerow(content) ==
    IF \E k \in DOMAIN content : \A i \in 1..Len(fieldnames) : fieldnames[i] # k
    THEN Raise("ValueError")
    ELSE Return([i \in 1..Len(fieldnames) |-> CsvCell(Get(content, fieldnames[i], Str(<<>>)))])

\* The loop of write_to_csv over what is left of results, after `rows`: the
\* outcome of the loop and the rows written.
RECURSIVE CsvWriteRows(_, _)
CsvWritten(results, rows, row) ==
    IF row.ok THEN CsvWriteRows(Tail(results), Append(rows, row.val))
    ELSE [res |-> row, rows |-> rows]

CsvWriteRows(results, rows) ==
    IF Len(results) = 0 THEN [res |-> Return(None), rows |-> rows]
    ELSE CsvWritten(results, rows,
                    Then(CsvFormatContent(cas[Head(results)]), LAMBDA content :
                         writerow(content)))

CsvClosed(done) == [res |-> done.res, file |-> CsvFile(fieldnames, done.rows)]

\* write_to_csv(results, filename): the file is opened for writing (created or
\* truncated) and the header written before the first result is formatted.
write_to_csv(results, file) == CsvClosed(CsvWriteRows(results, <<>>))

\* content["potentially_hazardous"] = bool(...) if ... is not None else False
JsonFlag(x) == IF x.t # "None" THEN Bool(Truthy(x)) ELSE Bool(FALSE)

JsonWithFlag(content) ==
    Then(Index(content, "potentially_hazardous"), LAMBDA flag :
         Return(Put(content, "potentially_hazardous", JsonFlag(flag))))

\* The dict format_content returns: KeyError when content lacks a key it reads.
JsonNested(content) ==
    IF ~({"datetime_utc", "distance_au", "velocity_km_s", "designation", "name",
          "diameter_km", "potentially_hazardous"} \subseteq DOMAIN content)
    THEN Raise("KeyError")
    ELSE Return(Dict(
             [datetime_utc |-> content["datetime_utc"],
              distance_au |-> content["distance_au"],
              velocity_km_s |-> content["velocity_km_s"],
              neo |-> Dict([designation |-> content["designation"],
                            name |-> content["name"],
                            diameter_km |-> content["diameter_km"],
                            potentially_hazardous |-> content["potentially_hazardous"]])]))

\* write_to_json.format_content(result)
JsonFormatContent(ca) ==
    Then(MergedContent(ca), LAMBDA merged :
    Then(JsonWithFlag(WithName(merged)), LAMBDA content : JsonNested(content)))

\* data = [format_content(result) for result in results]
RECURSIVE JsonFormatAll(_, _)
JsonFormatAll(results, data) ==
    IF Len(results) = 0 THEN Return(data)
    ELSE Then(JsonFormatContent(cas[Head(results)]), LAMBDA content :
              JsonFormatAll(Tail(results), Append(data, content)))

\* json.dump: the JSON value of a Python value.
RECURSIVE JsonValue(_)
JsonValue(x) ==
    CASE x.t = "None" -> [j |-> "null"]
      [] x.t = "bool" -> [j |-> IF x.v THEN "true" ELSE "false"]
      [] x.t = "str" -> [j |-> "string", v |-> x.v]
      [] x.t = "nan" -> [j |-> "number", v |-> <<"N", "a", "N">>]
      [] x.t = "float" -> [j |-> "number", v |-> FloatStr(x)]
      [] x.t = "dict" -> [j |-> "object", v |-> [k \in DOMAIN x.v |-> JsonValue(x.v[k])]]
      [] x.t = "list" -> [j |-> "array", v |-> [i \in 1..Len(x.v) |-> JsonValue(x.v[i])]]

\* with open(filename, "w") as outfile: json.dump(data, outfile, indent=5)
JsonDumped(data) == [res |-> Return(None), file |-> JsonFile(JsonValue(List(data)))]

\* write_to_json with the comprehension inside the with block: the file is
\* opened, and so created or emptied, before any result is formatted.
Emptied == [t |-> "empty"]
JsonAfterOpen(data, file) ==
    IF data.ok THEN JsonDumped(data.val) ELSE [res |-> data, file |-> Emptied]

\* The outcome of write_to_json once the comprehension has ended: an exception
\* of it leaves the function before the file is opened.
JsonAfterFormat(data, file) ==
    IF data.ok THEN JsonDumped(data.val) ELSE [res |-> data, file |-> file]

\* write_to_json(results, filename)
write_to_json(results, file) == JsonAfterFormat(JsonFormatAll(results, <<>>), file)

\* ------------------------------------------------------------ extract.py
\* float(row['diameter']) if row['diameter'] else float('nan')
RowDiameter(text) == IF Truthy(text) THEN Float(text) ELSE Return(NaN)

\* The loop of load_neos over the rows csv.DictReader yields (each a dict of
\* texts), after the objects of `out`.
RECURSIVE LoadNeosRows(_, _)
LoadNeosRows(rows, out) ==
    IF Len(rows) = 0 THEN Return(out)
    ELSE Then(Index(Head(rows), "pdes"), LAMBDA designation :
         Then(Index(Head(rows), "name"), LAMBDA name :
         Then(Index(Head(rows), "diameter"), LAMBDA text :
         Then(RowDiameter(text), LAMBDA diameter :
         Then(Index(Head(rows), "hazardous"), LAMBDA flag :
         Then(NearEarthObject(<<designation, name, diameter, Bool(flag = Str(<<"Y">>))>>,
                              EmptyDict), LAMBDA neo :
              LoadNeosRows(Tail(rows), Append(out, neo))))))))

\* load_neos(neo_csv_path), on the rows of the file
load_neos(rows) == LoadNeosRows(rows, <<>>)

\* The loop of load_approaches over the records json.load returns.
RECURSIVE LoadApproachesRecords(_, _)
LoadApproachesRecords(data, out) ==
    IF Len(data) = 0 THEN Return(out)
    ELSE Then(Index(Head(data), "designation"), LAMBDA designation :
         Then(Index(Head(data), "time"), LAMBDA time :
         Then(Index(Head(data), "distance"), LAMBDA dtext :
         Then(Float(dtext), LAMBDA distance :
         Then(Index(Head(data), "velocity"), LAMBDA vtext :
         Then(Float(vtext), LAMBDA velocity :
         Then(CloseApproach(<<designation, time, distance, velocity>>, EmptyDict),
              LAMBDA approach :
              LoadApproachesRecords(Tail(data), Append(out, approach)))))))))

\* load_approaches(cad_json_path), on the records of the file
load_approaches(data) == LoadApproachesRecords(data, <<>>)

\* ------------------------------------------------------------ inputs
T_433 == <<"4", "3", "3">>
T_Eros == <<"E", "r", "o", "s">>
T_2020AB == <<"2", "0", "2", "0", " ", "A", "B">>
T_abc == <<"a", "b", "c">>
T_NaN == <<"N", "a", "N">>
T_16_84 == <<"1", "6", ".", "8", "4">>
T_0_15 == <<"0", ".", "1", "5">>
T_6_65 == <<"6", ".", "6", "5">>
T_Time1 == <<"1", "9", "0", "0", "-", "D", "e", "c", "-", "2", "7", " ",
             "0", "1", ":", "3", "0">>
T_Time2 == <<"2", "0", "2", "0", "-", "F", "e", "b", "-", "3", "0", " ",
             "1", "2", ":", "0", "0">>

\* The keyword mappings NearEarthObject is constructed from.
NeoInfos ==
    { [designation |-> Str(T_433), name |-> Str(T_Eros), diameter |-> Flt(1684),
       hazardous |-> Bool(FALSE)],
      [designation |-> Str(T_2020AB), name |-> Str(<<>>), diameter |-> Str(T_16_84),
       hazardous |-> Bool(TRUE)],
      [name |-> Str(T_Eros), hazardous |-> Bool(FALSE)],
      [designation |-> Str(T_433), name |-> Str(T_Eros), diameter |-> Str(<<>>),
       hazardous |-> Bool(TRUE)],
      [designation |-> Str(T_433), diameter |-> None, hazardous |-> Bool(FALSE)],
      [designation |-> Str(T_2020AB), name |-> None, diameter |-> Str(T_abc),
       hazardous |-> Bool(FALSE)],
      [designation |-> Str(T_433), hazardous |-> Bool(FALSE)],
      [designation |-> Str(T_2020AB), name |-> None, diameter |-> Str(T_NaN),
       hazardous |-> Bool(TRUE)] }

\* The keyword mappings CloseApproach is constructed from that carry no neo.
CaFull == [designation |-> Str(T_433), time |-> Str(T_Time1), distance |-> Flt(15),
           velocity |-> Flt(665)]
CaEmptyTime == [designation |-> Str(T_2020AB), time |-> Str(<<>>), distance |-> Flt(15),
                velocity |-> Flt(665)]
CaInfos ==
    { CaFull,
      CaEmptyTime,
      [time |-> Str(T_Time1), distance |-> Flt(15), velocity |-> Flt(665)],
      [designation |-> Str(T_2020AB), distance |-> Flt(15), velocity |-> Flt(665)],
      [designation |-> Str(T_2020AB), time |-> Str(T_Time1), velocity |-> Flt(665)],
      [designation |-> Str(T_2020AB), time |-> Str(T_Time1), distance |-> Flt(15)],
      [designation |-> Str(T_433), time |-> Str(T_Time2), distance |-> Flt(15),
       velocity |-> Flt(665)],
      [designation |-> Str(T_433), time |-> Str(T_abc), distance |-> Flt(15),
       velocity |-> Flt(665)],
      [designation |-> Str(T_433), time |-> Str(T_Time1), distance |-> Str(T_0_15),
       velocity |-> Flt(665)] }

\* Those that are also given with neo = n, for each NEO n constructed so far.
CaLinkable == {CaFull, CaEmptyTime}

\* The rows csv.DictReader yields from a NEO file, and the records json.load
\* returns from a close-approach file.
NeoRows ==
    { [pdes |-> Str(T_433), name |-> Str(T_Eros), diameter |-> Str(T_16_84),
       hazardous |-> Str(<<"N">>)],
      [pdes |-> Str(T_2020AB), name |-> Str(<<>>), diameter |-> Str(<<>>),
       hazardous |-> Str(<<"Y">>)] }

CadRecords ==
    { [designation |-> Str(T_433), time |-> Str(T_Time1), distance |-> Str(T_0_15),
       velocity |-> Str(T_6_65)],
      [designation |-> Str(T_2020AB), time |-> Str(T_Time1), distance |-> Flt(15),
       velocity |-> Flt(665)] }

\* The sequences over S of length at most n.
SeqsUpTo(S, n) == UNION { [1..k -> S] : k \in 0..n }

\* ------------------------------------------------------------ calls
Call(op, arg, res) == [op |-> op, arg |-> arg, res |-> res]

Init ==
    /\ neos = <<>>
    /\ cas = <<>>
    /\ outfile \in {Absent, OldFile}
    /\ lastCall = Call("none", None, Return(None))

\* A construction that returned adds its instance to those constructed so far.
Constructed(objects, made) == IF made.ok THEN Append(objects, made.val) ELSE objects

\* A load that returned adds its instances, in order.
Loaded(objects, got) == IF got.ok THEN objects \o got.val ELSE objects
Fits(objects, got, max) == got.ok => Len(objects) + Len(got.val) <= max

\* NearEarthObject(**info)
NeoConstructed(info, made) ==
    /\ neos' = Constructed(neos, made)
    /\ lastCall' = Call("NearEarthObject", info, made)

ConstructNEO ==
    /\ Len(neos) < MaxNeos
    /\ \E info \in NeoInfos : NeoConstructed(info, NearEarthObject(<<>>, info))
    /\ UNCHANGED <<cas, outfile>>

\* CloseApproach(**info), with or without a neo among the keywords
CaConstructed(info, made) ==
    /\ cas' = Constructed(cas, made)
    /\ lastCall' = Call("CloseApproach", info, made)

ConstructCA ==
    /\ Len(cas) < MaxCas
    /\ \E info \in CaInfos \cup { Put(base, "neo", NeoRef(n)) :
                                     base \in CaLinkable, n \in 1..Len(neos) } :
         CaConstructed(info, CloseApproach(<<>>, info))
    /\ UNCHANGED <<neos, outfile>>

\* neo.fullname
ReadFullname ==
    /\ \E n \in 1..Len(neos) :
         lastCall' = Call("fullname", n, Return(Str(fullname(neos[n]))))
    /\ UNCHANGED <<neos, cas, outfile>>

\* neo.serialize()
SerializeNEO ==
    /\ \E n \in 1..Len(neos) :
         lastCall' = Call("NearEarthObject.serialize", n, Return(Dict(NeoSerialize(neos[n]))))
    /\ UNCHANGED <<neos, cas, outfile>>

\* approach.serialize()
SerializeCA ==
    /\ \E c \in 1..Len(cas) :
         lastCall' = Call("CloseApproach.serialize", c,
                          Then(CaSerialize(cas[c]), LAMBDA out : Return(Dict(out))))
    /\ UNCHANGED <<neos, cas, outfile>>

\* str(approach)
StrCA ==
    /\ \E c \in 1..Len(cas) : lastCall' = Call("CloseApproach.__str__", c, CaStr(cas[c]))
    /\ UNCHANGED <<neos, cas, outfile>>

\* load_neos(path) on a file of at most MaxRows rows
NeosLoaded(rows, got) ==
    /\ Fits(neos, got, MaxNeos)
    /\ neos' = Loaded(neos, got)
    /\ lastCall' = Call("load_neos", rows, got)

LoadNeos ==
    /\ \E rows \in SeqsUpTo(NeoRows, MaxRows) : NeosLoaded(rows, load_neos(rows))
    /\ UNCHANGED <<cas, outfile>>

\* load_approaches(path) on a file of at most MaxRows records
ApproachesLoaded(data, got) ==
    /\ Fits(cas, got, MaxCas)
    /\ cas' = Loaded(cas, got)
    /\ lastCall' = Call("load_approaches", data, got)

LoadApproaches ==
    /\ \E data \in SeqsUpTo(CadRecords, MaxRows) : ApproachesLoaded(data, load_approaches(data))
    /\ UNCHANGED <<neos, outfile>>

\* The file and the outcome a writer leaves.
Written(op, results, done) ==
    /\ outfile' = done.file
    /\ lastCall' = Call(op, results, done.res)

\* write_to_csv(results, filename) on a stream of at most MaxResults approaches
WriteToCsv ==
    /\ \E results \in SeqsUpTo(1..Len(cas), MaxResults) :
         Written("write_to_csv", results, write_to_csv(results, outfile))
    /\ UNCHANGED <<neos, cas>>

\* write_to_json(results, filename) on a stream of at most MaxResults approaches
WriteToJson ==
    /\ \E results \in SeqsUpTo(1..Len(cas), MaxResults) :
         Written("write_to_json", results, write_to_json(results, outfile))
    /\ UNCHANGED <<neos, cas>>

Next ==
    \/ ConstructNEO
    \/ ConstructCA
    \/ ReadFullname
    \/ SerializeNEO
    \/ SerializeCA
    \/ StrCA
    \/ LoadNeos
    \/ LoadApproaches
    \/ WriteToCsv
    \/ WriteToJson

Spec == Init /\ [][Next]_vars

\* The entity classes alone: construction, fullname, serialize, str.
NextEntities ==
    \/ ConstructNEO
    \/ ConstructCA
    \/ ReadFullname
    \/ SerializeNEO
    \/ SerializeCA
    \/ StrCA

SpecEntities == Init /\ [][NextEntities]_vars

\* Construction and the two writers.
NextWrite ==
    \/ ConstructNEO
    \/ ConstructCA
    \/ WriteToCsv
    \/ WriteToJson

SpecWrite == Init /\ [][NextWrite]_vars

\* ------------------------------------------------------------ properties
IsCall(op) == lastCall.op = op
Missing(key) == key \notin DOMAIN lastCall.arg

\* C1: a construction whose mapping lacks a required field (designation for
\* NearEarthObject; designation, time, distance or velocity for CloseApproach)
\* raises, and yields no object.
RequiredFieldsValidated ==
    /\ (IsCall("NearEarthObject") /\ Missing("designation")) => ~lastCall.res.ok
    /\ (IsCall("CloseApproach")
        /\ \E key \in {"designation", "time", "distance", "velocity"} : Missing(key))
       => ~lastCall.res.ok

\* C2: a NearEarthObject construction whose diameter is missing, empty, None or
\* no number returns, and the object's diameter is not-a-number.
DiameterNeverRaises ==
    (IsCall("NearEarthObject")
     /\ (Missing("diameter")
         \/ lastCall.arg["diameter"] \in {None, Str(<<>>), Str(T_abc)}))
    => (lastCall.res.ok /\ lastCall.res.val.diameter = NaN)

\* C3: a CloseApproach construction whose time is a text that is no date-time,
\* the empty text included, raises; every CloseApproach constructed holds a
\* datetime in its time field.
NoApproachWithoutValidTime ==
    /\ (IsCall("CloseApproach") /\ ~Missing("time")
        /\ lastCall.arg["time"] \in {Str(<<>>), Str(T_abc), Str(T_Time2)})
       => ~lastCall.res.ok
    /\ \A c \in 1..Len(cas) : cas[c].time.t = "datetime"

\* C4: a CloseApproach whose neo is a NEO n occurs exactly once among n's
\* approaches, and every approach among n's approaches has n as its neo.
Occurrences(seq, x) == Cardinality({i \in 1..Len(seq) : seq[i] = x})

LinkConsistent ==
    /\ \A c \in 1..Len(cas) :
         cas[c].neo.t = "neo" => Occurrences(neos[cas[c].neo.id].approaches, c) = 1
    /\ \A n \in 1..Len(neos) : \A i \in 1..Len(neos[n].approaches) :
         cas[neos[n].approaches[i]].neo = NeoRef(n)

\* C5: every CloseApproach rendered by str() or handed to write_to_csv or
\* write_to_json has a neo that is not None.
ConsumersSeeLinkedApproaches ==
    /\ IsCall("CloseApproach.__str__") => cas[lastCall.arg].neo # None
    /\ (IsCall("write_to_csv") \/ IsCall("write_to_json"))
       => \A i \in 1..Len(lastCall.arg) : cas[lastCall.arg[i]].neo # None

\* C6: fullname is "designation (name)" when the name is present, and the bare
\* designation when the name is None or empty; "433" named "Eros" gives
\* "433 (Eros)".
DesignationText(neo) ==
    IF neo.designation.t = "str" THEN neo.designation.v ELSE <<"N", "o", "n", "e">>

FullnameFormat ==
    IsCall("fullname") =>
        /\ neos[lastCall.arg].name \in {None, Str(<<>>)}
           => lastCall.res = Return(Str(DesignationText(neos[lastCall.arg])))
        /\ neos[lastCall.arg].name \notin {None, Str(<<>>)}
           => lastCall.res = Return(Str(DesignationText(neos[lastCall.arg]) \o <<" ", "(">>
                                        \o neos[lastCall.arg].name.v \o <<")">>))
        /\ (neos[lastCall.arg].designation = Str(T_433)
            /\ neos[lastCall.arg].name = Str(T_Eros))
           => lastCall.res.val.v = <<"4", "3", "3", " ", "(", "E", "r", "o", "s", ")">>

\* fullname read on a NEO constructed without a name: the bare designation.
FullnameWitness ==
    /\ IsCall("fullname")
    /\ neos[lastCall.arg].name = None
    /\ lastCall.res = Return(Str(T_433))

\* C7: serialize() of a NEO returns exactly its designation, name, diameter and
\* hazardous flag, serialize() of a CloseApproach exactly its date-time text,
\* distance and velocity, every value a scalar (no approaches collection, no
\* neo reference), and the call leaves every object as it was.
Scalars(d) == \A k \in DOMAIN d : d[k].t \in {"None", "str", "float", "nan", "bool"}

SerializeFlat ==
    [][/\ lastCall'.op = "NearEarthObject.serialize"
          => /\ neos' = neos /\ cas' = cas
             /\ lastCall'.res.ok
             /\ DOMAIN lastCall'.res.val.v
                  = {"Designation", "Name", "Diameter_km", "Potentially_hazardous"}
             /\ Scalars(lastCall'.res.val.v)
       /\ lastCall'.op = "CloseApproach.serialize"
          => /\ neos' = neos /\ cas' = cas
             /\ lastCall'.res.ok
                => /\ DOMAIN lastCall'.res.val.v
                        = {"Datetime_utc", "Distance_au", "Velocity_km_s"}
                   /\ Scalars(lastCall'.res.val.v)]_vars

SerializeWitness ==
    /\ IsCall("NearEarthObject.serialize")
    /\ \E c \in 1..Len(cas) : cas[c].neo = NeoRef(lastCall.arg)

\* C8: write_to_csv and write_to_json, given approaches that each have a
\* date-time and a NEO, return and leave one record per approach in the file,
\* in the order of the results, carrying the approach's date-time text and its
\* NEO's designation.
AllExportable(results) ==
    \A i \in 1..Len(results) :
        cas[results[i]].time.t = "datetime" /\ cas[results[i]].neo.t = "neo"

ExportRoundTrip ==
    /\ (IsCall("write_to_csv") /\ AllExportable(lastCall.arg))
       => /\ lastCall.res.ok
          /\ outfile.t = "csv"
          /\ Len(outfile.rows) = Len(lastCall.arg)
          /\ \A i \in 1..Len(lastCall.arg) :
               /\ Str(outfile.rows[i][1]) = datetime_to_str(cas[lastCall.arg[i]].time).val
               /\ outfile.rows[i][4] = PyStr(neos[cas[lastCall.arg[i]].neo.id].designation)
    /\ (IsCall("write_to_json") /\ AllExportable(lastCall.arg))
       => /\ lastCall.res.ok
          /\ outfile.t = "json"
          /\ Len(outfile.doc.v) = Len(lastCall.arg)
          /\ \A i \in 1..Len(lastCall.arg) :
               /\ Str(outfile.doc.v[i].v["datetime_utc"].v)
                    = datetime_to_str(cas[lastCall.arg[i]].time).val
               /\ outfile.doc.v[i].v["neo"].v["designation"]
                    = JsonValue(neos[cas[lastCall.arg[i]].neo.id].designation)

\* C9: load_neos returns one NearEarthObject per row and load_approaches one
\* CloseApproach per record, in input order, each with its record's
\* designation.
LoadPreservesRecords ==
    /\ IsCall("load_neos")
       => /\ lastCall.res.ok
          /\ Len(lastCall.res.val) = Len(lastCall.arg)
          /\ \A i \in 1..Len(lastCall.arg) :
               lastCall.res.val[i].designation = lastCall.arg[i]["pdes"]
    /\ IsCall("load_approaches")
       => /\ lastCall.res.ok
          /\ Len(lastCall.res.val) = Len(lastCall.arg)
          /\ \A i \in 1..Len(lastCall.arg) :
               lastCall.res.val[i]._designation = lastCall.arg[i]["designation"]

\* C10: a write_to_json call that raises while formatting leaves the file as
\* it was, neither created nor modified; a call that returns leaves the JSON
\* document of all its results.
JsonFormatsBeforeOpen ==
    [][lastCall'.op = "write_to_json"
       => IF lastCall'.res.ok
          THEN outfile'.t = "json" /\ Len(outfile'.doc.v) = Len(lastCall'.arg)
          ELSE outfile' = outfile]_vars

JsonFailureWitness ==
    /\ IsCall("write_to_json")
    /\ ~lastCall.res.ok
    /\ Len(lastCall.arg) = 2
    /\ outfile = Absent

====
